---- MODULE Spec2Model ----
(***************************************************************************)
(* Digital Mirror (src/digital_mirror.py): the camera widget's freeze /    *)
(* pan / mask-editing state, the render pipeline's bookkeeping and the     *)
(* sticker export, as a state machine with one action per Qt handler.      *)
(*                                                                         *)
(* Conventions.                                                            *)
(*  - An optional value (Python None or a value) is a sequence: <<>> is    *)
(*    None, <<v>> is the value v.                                          *)
(*  - zoom is an integer in units of 1/ZoomUnit (1.0 is ZoomUnit).         *)
(*  - a pan offset is an integer in units of 1/PanDen, PanDen chosen so    *)
(*    that every value the handlers compute is exact.                      *)
(*  - a mask layer is [h, w, px]: its shape and the set of pixels <<x,y>>  *)
(*    holding 1.  A stage's result is written {q : q \in {p \in S : P(p)}}  *)
(*    so that it is an enumerated set, computed once.                      *)
(*  - pixel colours are not modelled in the handlers: an image is          *)
(*    described by the part of the raw frame it shows and by the path of   *)
(*    _render_frame that built it.  The stages of _render_frame that work  *)
(*    on pixel values (brightness, mask combination, outline) are          *)
(*    operators of their own, applied to small rasters in SpecPipeline.    *)
(***************************************************************************)
EXTENDS Integers, Sequences, FiniteSets, TLC

VARIABLES
    is_frozen,              \* CameraWidget.is_frozen
    frozen_locked,          \* CameraWidget.frozen_locked
    last_raw_frame,         \* CameraWidget.last_raw_frame: None or <<frame id>>
    last_zoom,              \* CameraWidget._last_zoom: None (attribute not set) or <<zoom>>
    pan_offset_x,           \* CameraWidget.pan_offset_x
    pan_offset_y,           \* CameraWidget.pan_offset_y
    drag_start_pos,         \* CameraWidget.drag_start_pos
    last_paint_pos,         \* CameraWidget.last_paint_pos
    mask_edit_mode,         \* CameraWidget.mask_edit_mode
    mask_add_mode,          \* CameraWidget.mask_add_mode
    user_mask_additions,    \* CameraWidget.user_mask_additions
    user_mask_removals,     \* CameraWidget.user_mask_removals
    brush_size,             \* CameraWidget.brush_size
    display_crop,           \* CameraWidget._display_crop
    processed_frame_size,   \* CameraWidget._processed_frame_size
    pixmap,                 \* the QLabel's pixmap: None or <<image>>
    zoom_level,             \* DigitalMirrorApp.zoom_level
    zoom_slider,            \* DigitalMirrorApp.zoom_slider.value()
    bg_removal_enabled,     \* DigitalMirrorApp.bg_removal_enabled
    selfie_segmentation,    \* DigitalMirrorApp.selfie_segmentation is not None
    mask_edit_btn,          \* DigitalMirrorApp.mask_edit_btn.isChecked()
    file,                   \* the file at the export path: None or <<size in bytes>>
    ev,                     \* what the last handler did (camera read, re-render request, ...)
    calc                    \* the last pipeline stage applied on its own: its inputs and output

vars == <<is_frozen, frozen_locked, last_raw_frame, last_zoom, pan_offset_x,
          pan_offset_y, drag_start_pos, last_paint_pos, mask_edit_mode,
          mask_add_mode, user_mask_additions, user_mask_removals, brush_size,
          display_crop, processed_frame_size, pixmap, zoom_level, zoom_slider,
          bg_removal_enabled, selfie_segmentation, mask_edit_btn, file, ev, calc>>

widget_vars == <<is_frozen, frozen_locked, last_raw_frame, last_zoom, pan_offset_x,
                 pan_offset_y, drag_start_pos, last_paint_pos, mask_edit_mode,
                 mask_add_mode, user_mask_additions, user_mask_removals, brush_size,
                 display_crop, processed_frame_size, pixmap>>

app_vars == <<zoom_level, zoom_slider, bg_removal_enabled, selfie_segmentation,
              mask_edit_btn>>

----------------------------------------------------------------------------
(* Bounds of the model *)

\* raw camera frame, in pixels (the camera is asked for 1280 x 720)
RawW == 24
RawH == 6
\* size of the camera widget, in pixels
WidgetW == 12
WidgetH == 8
\* size of the rasters the pixel stages are applied to, in pixels
TileW == 12
TileH == 4
\* size of the processed frame the face crop is applied to, in pixels
FaceFrameW == 160
FaceFrameH == 120

----------------------------------------------------------------------------
(* Program constants *)

SliderUnit == 100       \* zoom = slider value / 100.0
ZoomSliderMin == 100
ZoomSliderMax == 500
BrushInit == 20
BrushMin == 5
BrushMax == 100
BrushStep == 5
PanStepDen == 20        \* pan_step = 0.05 = 1/20
CropPadding == 20
ExportLimit == 512000   \* 500 * 1024
QualityStart == 90
QualityStop == 10
QualityStep == 10
OutlineWidth == 6
SampleMax == 255
BrightnessMin == -50
BrightnessMax == 100

----------------------------------------------------------------------------
(* Values *)

None == <<>>
Some(v) == <<v>>

Abs(a) == IF a < 0 THEN -a ELSE a
\* Min without the bound: the second argument as it is
MinUnbounded(a, b) == b

Max(a, b) == IF a >= b THEN a ELSE b
Min(a, b) == IF a <= b THEN a ELSE b

\* Python int() of a quotient a/b with b > 0: truncation towards zero
TruncDiv(a, b) == IF a >= 0 THEN a \div b ELSE -((-a) \div b)

\* zoom values are integers in units of 1/ZoomUnit
ZoomUnit == 10 * SliderUnit
ZoomOne == ZoomUnit

\* pan offsets are integers in units of 1/PanDen: a pan step, a pixel of a
\* drag, a wheel notch and the limits 1/2, 3/4 and 0.5 are whole numbers of
\* units
PanDen == PanStepDen * RawW * RawH

----------------------------------------------------------------------------
(* _clamp_pan_offset *)

\* max(0, 1 - 1 / zoom) in units of 1/PanDen; the division is exact at the
\* zooms 1.0, 2.0 and 4.0 of the specifications below
MaxPan(z) ==
    IF z <= ZoomUnit THEN 0
    ELSE (PanDen * (z - ZoomUnit)) \div z

\* the limit _clamp_pan_offset applies: from _last_zoom when the attribute
\* exists, 0.5 otherwise
PanLimit(lz) == IF lz # None THEN MaxPan(lz[1]) ELSE PanDen \div 2

ClampPan(lz, p) == Max(-PanLimit(lz), Min(PanLimit(lz), p))

----------------------------------------------------------------------------
(* _render_frame *)

\* cv2.convertScaleAbs(frame, alpha=1.0, beta=brightness) on one 8-bit
\* sample: the absolute value of v + beta, saturated to 8 bits
ConvertScaleAbs(v, beta) == Min(SampleMax, Abs(v + beta))

\* the brightness adjustment of _render_frame on one sample
Brightness(v, brightness) ==
    IF brightness # 0 THEN ConvertScaleAbs(v, brightness) ELSE v

\* GeometryTransform without the clamp of the window's origin
GeometryTransformUnclamped(f, zoom, panx, pany) ==
    IF zoom > ZoomOne
    THEN [src |-> f,
          x1 |-> (RawW - (RawW * ZoomUnit) \div zoom) \div 2 - TruncDiv(panx * RawW, 2 * PanDen),
          y1 |-> (RawH - (RawH * ZoomUnit) \div zoom) \div 2 - TruncDiv(pany * RawH, 2 * PanDen),
          w |-> (RawW * ZoomUnit) \div zoom, h |-> (RawH * ZoomUnit) \div zoom]
    ELSE [src |-> f, x1 |-> 0, y1 |-> 0, w |-> RawW, h |-> RawH]

\* the zoom crop of the raw frame f: the window [x1, x1+w) x [y1, y1+h)
GeometryTransform(f, zoom, panx, pany) ==
    IF zoom > ZoomOne
    THEN LET w == RawW
             h == RawH
             crop_w == (w * ZoomUnit) \div zoom
             crop_h == (h * ZoomUnit) \div zoom
             pan_x == TruncDiv(panx * w, 2 * PanDen)
             pan_y == TruncDiv(pany * h, 2 * PanDen)
             x1 == (w - crop_w) \div 2 - pan_x
             y1 == (h - crop_h) \div 2 - pan_y
         IN  [src |-> f,
              x1 |-> Max(0, Min(w - crop_w, x1)),
              y1 |-> Max(0, Min(h - crop_h, y1)),
              w |-> crop_w, h |-> crop_h]
    ELSE [src |-> f, x1 |-> 0, y1 |-> 0, w |-> RawW, h |-> RawH]

\* QPixmap.scaled(self.size(), Qt.KeepAspectRatio): the size of the pixmap shown
ScaledSize(w, h) ==
    LET rw == (WidgetH * w) \div h
    IN  IF rw <= WidgetW
        THEN [w |-> Max(1, rw), h |-> WidgetH]
        ELSE [w |-> WidgetW, h |-> Max(1, (WidgetW * h) \div w)]

\* the largest face of the detector's answer, when it lies in the w x h frame
FaceFound(o, w, h) ==
    /\ o.kind = "face"
    /\ o.x >= 0 /\ o.y >= 0 /\ o.w > 0 /\ o.h > 0
    /\ o.x + o.w <= w /\ o.y + o.h <= h

\* HeadEllipse centred on the face box, without the shift upwards
HeadEllipseCentred(o) ==
    [cx |-> o.x + o.w \div 2, cy |-> o.y + o.h \div 2,
     ax |-> (o.w * 75) \div 100, ay |-> (o.h * 85) \div 100]

\* the head ellipse of the face box o: its centre and its semi-axes
\* (fx + fw // 2, fy + int(fh * 0.4)), (int(fw * 0.75), int(fh * 0.85))
HeadEllipse(o) ==
    [cx |-> o.x + o.w \div 2, cy |-> o.y + (o.h * 4) \div 10,
     ax |-> (o.w * 75) \div 100, ay |-> (o.h * 85) \div 100]

\* the crop to the head ellipse's bounds with padding
FaceCrop(o, w, h) ==
    LET e == HeadEllipse(o)
    IN  [x1 |-> Max(0, e.cx - e.ax - CropPadding),
         y1 |-> Max(0, e.cy - e.ay - CropPadding),
         x2 |-> Min(w, e.cx + e.ax + CropPadding),
         y2 |-> Min(h, e.cy + e.ay + CropPadding)]

\* LayerApplies without the comparison of shapes
LayerAppliesAnyShape(layer, h, w) == layer # None

\* whether a user layer is applied to a mask of shape (h, w)
LayerApplies(layer, h, w) ==
    /\ layer # None
    /\ layer[1].h = h /\ layer[1].w = w

\* OrMask with the layer's pixels toggled instead of set
XorMask(m, layer) == [m EXCEPT !.px = (@ \ layer.px) \cup (layer.px \ @)]

\* mask_binary | self.user_mask_additions, on arrays holding 0 and 1
OrMask(m, layer) == [m EXCEPT !.px = @ \cup layer.px]

\* mask_binary & ~self.user_mask_removals, on arrays holding 0 and 1
AndNotMask(m, layer) == [m EXCEPT !.px = @ \ layer.px]

\* the user mask modifications of _render_frame: each layer is applied when
\* it is there and its shape is the mask's
Combine(base, adds, rems) ==
    LET a == IF LayerApplies(adds, base.h, base.w) THEN OrMask(base, adds[1]) ELSE base
    IN  IF LayerApplies(rems, base.h, base.w) THEN AndNotMask(a, rems[1]) ELSE a

\* the pixels of an array of m's shape
Pixels(m) == (0 .. m.w - 1) \X (0 .. m.h - 1)

\* the value 0 or 1 an array holds at p, px being the pixels that hold 1
Bit(p, px) == IF p \in px THEN 1 ELSE 0

RECURSIVE SumSeq(_)
SumSeq(s) == IF s = <<>> THEN 0 ELSE Head(s) + SumSeq(Tail(s))

\* the index cv2.GaussianBlur reads for index i of an axis of length n
\* (BORDER_REFLECT_101, its default)
Reflect101(i, n) == IF i < 0 THEN -i ELSE IF i >= n THEN 2 * (n - 1) - i ELSE i

\* the weights of cv2.GaussianBlur's kernels (7, 7) with sigma 2 and (5, 5)
\* with sigma 1.5 along one axis, in thousandths
Gauss7 == <<70, 131, 191, 216, 191, 131, 70>>
Gauss5 == <<120, 234, 292, 234, 120>>

\* (cv2.GaussianBlur(m.astype(np.float32), (k, k), sigma) > 0.3).astype(np.uint8)
Smooth(m, kernel) ==
    LET n == Len(kernel)
        r == n \div 2
        blurred(p) ==
            SumSeq([i \in 1 .. n |-> kernel[i] * SumSeq([j \in 1 .. n |->
                kernel[j] * Bit(<<Reflect101(p[1] + i - 1 - r, m.w),
                                  Reflect101(p[2] + j - 1 - r, m.h)>>, m.px)])])
    IN  [m EXCEPT !.px = {q : q \in {p \in Pixels(m) : 10 * blurred(p) > 3 * 1000 * 1000}}]

\* cv2.getStructuringElement(cv2.MORPH_ELLIPSE, (13, 13)): the half width of
\* the element's row at distance 0, 1, ..., outline_width from its centre row
EllipseHalfWidth == <<6, 6, 6, 5, 4, 3, 0>>

\* Dilate left out: the mask as it is
DilateNothing(m) == m

\* cv2.dilate(mask_binary, kernel, iterations=1)
Dilate(m) ==
    [m EXCEPT !.px =
        {d : d \in {p \in Pixels(m) :
            \E q \in m.px :
                /\ Abs(q[2] - p[2]) <= OutlineWidth
                /\ Abs(q[1] - p[1]) <= EllipseHalfWidth[Abs(q[2] - p[2]) + 1]}}]

\* a - b on np.uint8 values
Sub8(a, b) == (a - b) % 256

\* np.clip(outline, 0, 1) of the difference dilated - mask_binary
Outline(dilated, mask) ==
    [mask EXCEPT !.px =
        {q : q \in {p \in Pixels(mask) :
            Max(0, Min(1, Sub8(Bit(p, dilated.px), Bit(p, mask.px)))) > 0}}]

\* a displayed pixmap: the image and its size on screen
Pixmap(img) ==
    LET s == ScaledSize(img.w, img.h)
    IN  Some([img |-> img, w |-> s.w, h |-> s.h])

\* the image of the plain path (RGB888 of the transformed frame); fallback
\* tells the except branch from the else branch
PlainImage(g, fallback) ==
    [kind |-> "plain", geom |-> g, fallback |-> fallback, crop |-> None,
     add_used |-> FALSE, rem_used |-> FALSE, w |-> g.w, h |-> g.h]

\* the image of the sticker path (RGBA8888 of the composited frame)
StickerImage(g, crop, add_used, rem_used) ==
    [kind |-> "sticker", geom |-> g, fallback |-> FALSE, crop |-> crop,
     add_used |-> add_used, rem_used |-> rem_used,
     w |-> IF crop = None THEN g.w ELSE crop[1].x2 - crop[1].x1,
     h |-> IF crop = None THEN g.h ELSE crop[1].y2 - crop[1].y1]

\* RenderFallback with the failure propagated out of _render_frame instead:
\* nothing is displayed
RenderFallbackPropagated(zoom, g, crop, psize) ==
    [last_zoom |-> Some(zoom), display_crop |-> crop,
     processed_frame_size |-> psize, pixmap |-> None,
     rendered |-> FALSE, seg |-> "error"]

\* the except branch of _render_frame: the transformed frame g is shown as
\* it is, the crop and the processed size stay as the last render left them
RenderFallback(zoom, g, crop, psize) ==
    [last_zoom |-> Some(zoom), display_crop |-> crop,
     processed_frame_size |-> psize,
     pixmap |-> Pixmap(PlainImage(g, TRUE)),
     rendered |-> TRUE, seg |-> "error"]

\* _render_frame(frame, mirrored, zoom, brightness, bg_removal, bg_session):
\* the widget fields it leaves, and seg: whether it ran the segmenter
\* ("none"), ran it ("ok") or ran it and took the except branch ("error").
\* o is what the segmentation and face detection capabilities answer for
\* this frame.
RenderFrame(f, zoom, panx, pany, bg, session, adds, rems, crop, psize, o) ==
    LET g == GeometryTransform(f, zoom, panx, pany)
    IN  IF bg /\ session
        THEN IF o.kind \in {"seg_error", "detect_error"}
             THEN RenderFallback(zoom, g, crop, psize)
             ELSE LET face == FaceFound(o, g.w, g.h)
                      c == IF face THEN Some(FaceCrop(o, g.w, g.h)) ELSE None
                  IN  [last_zoom |-> Some(zoom), display_crop |-> c,
                       processed_frame_size |-> Some([h |-> g.h, w |-> g.w]),
                       pixmap |-> Pixmap(StickerImage(g, c,
                                     LayerApplies(adds, g.h, g.w),
                                     LayerApplies(rems, g.h, g.w))),
                       rendered |-> TRUE, seg |-> "ok"]
        ELSE [last_zoom |-> Some(zoom), display_crop |-> None,
              processed_frame_size |-> None,
              pixmap |-> Pixmap(PlainImage(g, FALSE)),
              rendered |-> TRUE, seg |-> "none"]

\* no render: the widget fields as they are
NoRender(lz, crop, psize, pm) ==
    [last_zoom |-> lz, display_crop |-> crop, processed_frame_size |-> psize,
     pixmap |-> pm, rendered |-> FALSE, seg |-> "none"]

\* rerender_frozen_frame(zoom, brightness, bg_removal, bg_session)
RerenderFrozenFrame(raw, zoom, panx, pany, bg, session, adds, rems, lz, crop, psize, pm, o) ==
    IF raw # None
    THEN RenderFrame(raw[1], zoom, panx, pany, bg, session, adds, rems, crop, psize, o)
    ELSE NoRender(lz, crop, psize, pm)

\* _request_rerender -> DigitalMirrorApp._rerender_frozen, called with the
\* widget in the state given by the parameters
RerenderFrozen(frozen, raw, zoom, panx, pany, bg, session, adds, rems, lz, crop, psize, pm, o) ==
    IF frozen
    THEN RerenderFrozenFrame(raw, zoom, panx, pany, bg, session, adds, rems, lz, crop, psize, pm, o)
    ELSE NoRender(lz, crop, psize, pm)

----------------------------------------------------------------------------
(* _paint_at_position *)

\* a pointer position <<x, y>> in widget coordinates, as pixmap coordinates
PixmapPoint(pos, pm) ==
    LET offset_x == (WidgetW - pm.w) \div 2
        offset_y == (WidgetH - pm.h) \div 2
    IN  [x |-> pos[1] - offset_x, y |-> pos[2] - offset_y]

\* InPixmap without the test of the upper edge
InPixmapBelowOnly(pos, pm) ==
    LET p == PixmapPoint(pos, pm)
    IN  ~(p.x < 0 \/ p.x >= pm.w \/ p.y >= pm.h)

\* the position maps inside the displayed pixmap
InPixmap(pos, pm) ==
    LET p == PixmapPoint(pos, pm)
    IN  ~(p.x < 0 \/ p.y < 0 \/ p.x >= pm.w \/ p.y >= pm.h)

\* FramePoint without the centering offset: the widget position is taken
\* for the pixmap position
FramePointUncentred(pos, pm, crop, psize) ==
    LET proc_w == IF psize # None THEN psize[1].w ELSE RawW
        proc_h == IF psize # None THEN psize[1].h ELSE RawH
    IN  [fx |-> Max(0, Min(proc_w - 1, (pos[1] * proc_w) \div pm.w)),
         fy |-> Max(0, Min(proc_h - 1, (pos[2] * proc_h) \div pm.h)),
         proc_h |-> proc_h, proc_w |-> proc_w]

\* FramePoint scaling by the processed frame's size inside a display crop
FramePointFrameScaled(pos, pm, crop, psize) ==
    LET p == PixmapPoint(pos, pm)
        proc_w == IF psize # None THEN psize[1].w ELSE RawW
        proc_h == IF psize # None THEN psize[1].h ELSE RawH
        x1 == IF crop # None /\ psize # None THEN crop[1].x1 ELSE 0
        y1 == IF crop # None /\ psize # None THEN crop[1].y1 ELSE 0
    IN  [fx |-> Max(0, Min(proc_w - 1, x1 + (p.x * proc_w) \div pm.w)),
         fy |-> Max(0, Min(proc_h - 1, y1 + (p.y * proc_h) \div pm.h)),
         proc_h |-> proc_h, proc_w |-> proc_w]

\* the processed-frame point and the processed-frame shape for a position
\* inside the pixmap: [fx, fy, proc_h, proc_w]
FramePoint(pos, pm, crop, psize) ==
    LET p == PixmapPoint(pos, pm)
        m == IF crop # None /\ psize # None
             THEN LET c == crop[1]
                  IN  [fx |-> c.x1 + (p.x * (c.x2 - c.x1)) \div pm.w,
                       fy |-> c.y1 + (p.y * (c.y2 - c.y1)) \div pm.h,
                       proc_h |-> psize[1].h, proc_w |-> psize[1].w]
             ELSE IF psize # None
             THEN [fx |-> (p.x * psize[1].w) \div pm.w,
                   fy |-> (p.y * psize[1].h) \div pm.h,
                   proc_h |-> psize[1].h, proc_w |-> psize[1].w]
             ELSE [fx |-> (p.x * RawW) \div pm.w,
                   fy |-> (p.y * RawH) \div pm.h,
                   proc_h |-> RawH, proc_w |-> RawW]
    IN  [fx |-> Max(0, Min(m.proc_w - 1, m.fx)),
         fy |-> Max(0, Min(m.proc_h - 1, m.fy)),
         proc_h |-> m.proc_h, proc_w |-> m.proc_w]

\* the pixels cv2.circle(img, (cx, cy), r, v, -1) writes in an h x w image
Disc(cx, cy, r, h, w) ==
    {q \in (0 .. w - 1) \X (0 .. h - 1) :
        (q[1] - cx) * (q[1] - cx) + (q[2] - cy) * (q[2] - cy) <= r * r}

\* a user mask kept when its shape is (h, w), np.zeros((h, w)) otherwise
LayerFor(layer, h, w) ==
    IF layer = None \/ layer[1].h # h \/ layer[1].w # w
    THEN [h |-> h, w |-> w, px |-> {}]
    ELSE layer[1]

\* DrawDisc overwriting the whole layer: the pixels outside the disc are zeroed
DrawDiscOnly(layer, d) == [layer EXCEPT !.px = d]

\* cv2.circle(layer, (fx, fy), brush, 1, -1)
DrawDisc(layer, d) == [layer EXCEPT !.px = @ \cup d]

\* ClearDisc forgotten: the opposite layer is left as it is
ClearDiscNothing(layer, d) == layer

\* cv2.circle(layer, (fx, fy), brush, 0, -1)
ClearDisc(layer, d) == [layer EXCEPT !.px = @ \ d]

\* _paint_at_position(pos, add_mode) up to its re-render request: whether it
\* painted (and so asks for a re-render) and the two layers it leaves
PaintAtPosition(pos, add_mode, raw, pm, crop, psize, adds, rems, brush) ==
    IF raw = None \/ pm = None
    THEN [painted |-> FALSE, adds |-> adds, rems |-> rems]
    ELSE IF ~InPixmap(pos, pm[1])
    THEN [painted |-> FALSE, adds |-> adds, rems |-> rems]
    ELSE LET m == FramePoint(pos, pm[1], crop, psize)
             a == LayerFor(adds, m.proc_h, m.proc_w)
             r == LayerFor(rems, m.proc_h, m.proc_w)
             d == Disc(m.fx, m.fy, brush, m.proc_h, m.proc_w)
         IN  IF add_mode
             THEN [painted |-> TRUE, adds |-> Some(DrawDisc(a, d)),
                   rems |-> Some(ClearDisc(r, d))]
             ELSE [painted |-> TRUE, adds |-> Some(ClearDisc(a, d)),
                   rems |-> Some(DrawDisc(r, d))]

----------------------------------------------------------------------------
(* What a handler did, for the properties that speak of calls *)

\* op: the handler ("tick", "mouse" for a press or a move, "freeze" for a
\* double click, "edit" for the mask edit button, "export", and "other");
\* cam_read: camera.read() was called; rerender: _request_rerender() was
\* called; seg: what the handler's render did with the segmenter; pan: the
\* handler adjusted the pan offsets and clamped them; paint: "none", or how
\* _paint_at_position ended ("returned" early, or "drawn"); export: what
\* _export_sticker reported; saves: the number of final.save() calls;
\* qualities: the qualities of these calls, in the order of the calls;
\* init: "none", or how the handler's call of _init_segmenter ended ("ok",
\* or "failed" when it raised)
Ev(op, cam_read, rerender, r) ==
    [op |-> op, cam_read |-> cam_read, rerender |-> rerender, seg |-> r.seg,
     pan |-> FALSE, paint |-> "none", export |-> "none", saves |-> 0,
     qualities |-> <<>>, init |-> "none"]

\* the widget fields a render result r leaves
ApplyRender(r) ==
    /\ last_zoom' = r.last_zoom
    /\ display_crop' = r.display_crop
    /\ processed_frame_size' = r.processed_frame_size
    /\ pixmap' = r.pixmap

Unrendered == NoRender(last_zoom, display_crop, processed_frame_size, pixmap)

\* _request_rerender() with the widget's fields as given
RequestRerender(frozen, panx, pany, adds, rems, o) ==
    RerenderFrozen(frozen, last_raw_frame, zoom_level, panx, pany,
                   bg_removal_enabled, selfie_segmentation, adds, rems,
                   last_zoom, display_crop, processed_frame_size, pixmap, o)

----------------------------------------------------------------------------
(* CameraWidget: mouse handlers *)

\* the painting branch shared by mousePressEvent and mouseMoveEvent
PaintStroke(pos, add_mode, o) ==
    \E p \in {PaintAtPosition(pos, add_mode, last_raw_frame, pixmap, display_crop,
                                processed_frame_size, user_mask_additions,
                                user_mask_removals, brush_size)} :
    \E r \in {IF p.painted
               THEN RequestRerender(is_frozen, pan_offset_x, pan_offset_y, p.adds, p.rems, o)
               ELSE Unrendered} :
        /\ mask_add_mode' = add_mode
        /\ last_paint_pos' = Some(pos)
        /\ user_mask_additions' = p.adds
        /\ user_mask_removals' = p.rems
        /\ ApplyRender(r)
        /\ ev' = [Ev("mouse", FALSE, p.painted, r)
                    EXCEPT !.paint = IF p.painted THEN "drawn" ELSE "returned"]
        /\ UNCHANGED <<is_frozen, frozen_locked, last_raw_frame, pan_offset_x,
                       pan_offset_y, drag_start_pos, mask_edit_mode, brush_size>>

mousePressEvent(button, pos, o) ==
    /\ IF mask_edit_mode /\ frozen_locked
       THEN PaintStroke(pos, IF button = "right" THEN FALSE ELSE mask_add_mode, o)
       ELSE IF frozen_locked
       THEN /\ drag_start_pos' = Some(pos)
            /\ ev' = Ev("mouse", FALSE, FALSE, Unrendered)
            /\ UNCHANGED <<is_frozen, frozen_locked, last_raw_frame, last_zoom,
                           pan_offset_x, pan_offset_y, last_paint_pos, mask_edit_mode,
                           mask_add_mode, user_mask_additions, user_mask_removals,
                           brush_size, display_crop, processed_frame_size, pixmap>>
       ELSE \E r \in {RequestRerender(TRUE, pan_offset_x, pan_offset_y,
                                        user_mask_additions, user_mask_removals, o)} :
                /\ is_frozen' = TRUE
                /\ ApplyRender(r)
                /\ ev' = Ev("mouse", FALSE, TRUE, r)
                /\ UNCHANGED <<frozen_locked, last_raw_frame, pan_offset_x,
                               pan_offset_y, drag_start_pos, last_paint_pos,
                               mask_edit_mode, mask_add_mode, user_mask_additions,
                               user_mask_removals, brush_size>>
    /\ UNCHANGED <<app_vars, file, calc>>

\* the pan branch of mouseMoveEvent
DragPan(pos, o) ==
    \E dx \in {pos[1] - drag_start_pos[1][1]}, dy \in {pos[2] - drag_start_pos[1][2]} :
    \E px \in {ClampPan(last_zoom, pan_offset_x + dx * 2 * (PanDen \div RawW))},
       py \in {ClampPan(last_zoom, pan_offset_y + dy * 2 * (PanDen \div RawH))} :
    \E r \in {RequestRerender(is_frozen, px, py, user_mask_additions,
                               user_mask_removals, o)} :
        /\ drag_start_pos' = Some(pos)
        /\ IF last_raw_frame # None
           THEN /\ pan_offset_x' = px
                /\ pan_offset_y' = py
                /\ ApplyRender(r)
                /\ ev' = [Ev("mouse", FALSE, TRUE, r) EXCEPT !.pan = TRUE]
           ELSE /\ UNCHANGED <<pan_offset_x, pan_offset_y, last_zoom, display_crop,
                               processed_frame_size, pixmap>>
                /\ ev' = Ev("mouse", FALSE, FALSE, Unrendered)
        /\ UNCHANGED <<is_frozen, frozen_locked, last_raw_frame, last_paint_pos,
                       mask_edit_mode, mask_add_mode, user_mask_additions,
                       user_mask_removals, brush_size>>

mouseMoveEvent(pos, o) ==
    /\ IF mask_edit_mode /\ frozen_locked /\ last_paint_pos # None
       THEN PaintStroke(pos, mask_add_mode, o)
       ELSE IF frozen_locked /\ drag_start_pos # None
       THEN DragPan(pos, o)
       ELSE /\ ev' = Ev("mouse", FALSE, FALSE, Unrendered)
            /\ UNCHANGED widget_vars
    /\ UNCHANGED <<app_vars, file, calc>>

\* mouseReleaseEvent unfreezing without the test of the lock
mouseReleaseEventUnfreezing ==
    /\ drag_start_pos' = None
    /\ last_paint_pos' = None
    /\ is_frozen' = FALSE
    /\ ev' = Ev("other", FALSE, FALSE, Unrendered)
    /\ UNCHANGED <<frozen_locked, last_raw_frame, last_zoom, pan_offset_x,
                   pan_offset_y, mask_edit_mode, mask_add_mode, user_mask_additions,
                   user_mask_removals, brush_size, display_crop,
                   processed_frame_size, pixmap>>
    /\ UNCHANGED <<app_vars, file, calc>>

\* mouseReleaseEvent without the unfreeze
mouseReleaseEventStillFrozen ==
    /\ drag_start_pos' = None
    /\ last_paint_pos' = None
    /\ ev' = Ev("other", FALSE, FALSE, Unrendered)
    /\ UNCHANGED <<is_frozen, frozen_locked, last_raw_frame, last_zoom, pan_offset_x,
                   pan_offset_y, mask_edit_mode, mask_add_mode, user_mask_additions,
                   user_mask_removals, brush_size, display_crop,
                   processed_frame_size, pixmap>>
    /\ UNCHANGED <<app_vars, file, calc>>

mouseReleaseEvent ==
    /\ drag_start_pos' = None
    /\ last_paint_pos' = None
    /\ is_frozen' = IF ~frozen_locked THEN FALSE ELSE is_frozen
    /\ ev' = Ev("other", FALSE, FALSE, Unrendered)
    /\ UNCHANGED <<frozen_locked, last_raw_frame, last_zoom, pan_offset_x,
                   pan_offset_y, mask_edit_mode, mask_add_mode, user_mask_additions,
                   user_mask_removals, brush_size, display_crop,
                   processed_frame_size, pixmap>>
    /\ UNCHANGED <<app_vars, file, calc>>

\* Unlocked with the two layers kept
UnlockedKeepingLayers ==
    [frozen_locked |-> FALSE, is_frozen |-> FALSE,
     pan_offset_x |-> 0, pan_offset_y |-> 0,
     user_mask_additions |-> user_mask_additions,
     user_mask_removals |-> user_mask_removals,
     mask_edit_mode |-> FALSE,
     display_crop |-> None, processed_frame_size |-> None]

\* the fields the unlock branch of mouseDoubleClickEvent assigns
Unlocked ==
    [frozen_locked |-> FALSE, is_frozen |-> FALSE,
     pan_offset_x |-> 0, pan_offset_y |-> 0,
     user_mask_additions |-> None, user_mask_removals |-> None,
     mask_edit_mode |-> FALSE,
     display_crop |-> None, processed_frame_size |-> None]

\* mouseDoubleClickEvent.  Its last statement, super().mouseDoubleClickEvent(event),
\* is QWidget's default implementation, which calls mousePressEvent(event):
\* the press handler runs on the state the toggle has left.  o1 and o2 are the
\* capabilities' answers to the renders of the two.
mouseDoubleClickEvent(button, pos, o1, o2) ==
    /\ IF frozen_locked
       THEN \* unlock, then the press freezes by holding
            \E u \in {Unlocked} :
            \E r \in {RerenderFrozen(TRUE, last_raw_frame, zoom_level, u.pan_offset_x,
                                      u.pan_offset_y, bg_removal_enabled,
                                      selfie_segmentation, u.user_mask_additions,
                                      u.user_mask_removals, last_zoom, u.display_crop,
                                      u.processed_frame_size, pixmap, o2)} :
                /\ frozen_locked' = u.frozen_locked
                /\ is_frozen' = TRUE
                /\ pan_offset_x' = u.pan_offset_x
                /\ pan_offset_y' = u.pan_offset_y
                /\ user_mask_additions' = u.user_mask_additions
                /\ user_mask_removals' = u.user_mask_removals
                /\ mask_edit_mode' = u.mask_edit_mode
                /\ ApplyRender(r)
                /\ ev' = Ev("freeze", FALSE, TRUE, r)
                /\ UNCHANGED <<last_raw_frame, drag_start_pos, last_paint_pos,
                               mask_add_mode, brush_size>>
       ELSE \* lock and re-render, then the press paints or starts a drag
            \E r1 \in {RequestRerender(TRUE, pan_offset_x, pan_offset_y,
                                        user_mask_additions, user_mask_removals, o1)},
               add_mode \in {IF button = "right" THEN FALSE ELSE mask_add_mode} :
            \E p \in {PaintAtPosition(pos, add_mode, last_raw_frame, r1.pixmap,
                                        r1.display_crop, r1.processed_frame_size,
                                        user_mask_additions, user_mask_removals,
                                        brush_size)} :
            \E r2 \in {IF p.painted
                        THEN RerenderFrozen(TRUE, last_raw_frame, zoom_level,
                                            pan_offset_x, pan_offset_y,
                                            bg_removal_enabled, selfie_segmentation,
                                            p.adds, p.rems, r1.last_zoom,
                                            r1.display_crop, r1.processed_frame_size,
                                            r1.pixmap, o2)
                        ELSE r1} :
                /\ frozen_locked' = TRUE
                /\ is_frozen' = TRUE
                /\ IF mask_edit_mode
                   THEN /\ mask_add_mode' = add_mode
                        /\ last_paint_pos' = Some(pos)
                        /\ user_mask_additions' = p.adds
                        /\ user_mask_removals' = p.rems
                        /\ ApplyRender(r2)
                        /\ ev' = [Ev("freeze", FALSE, TRUE, r2)
                                    EXCEPT !.paint = IF p.painted THEN "drawn"
                                                     ELSE "returned"]
                        /\ UNCHANGED drag_start_pos
                   ELSE /\ drag_start_pos' = Some(pos)
                        /\ ApplyRender(r1)
                        /\ ev' = Ev("freeze", FALSE, TRUE, r1)
                        /\ UNCHANGED <<last_paint_pos, mask_add_mode,
                                       user_mask_additions, user_mask_removals>>
                /\ UNCHANGED <<last_raw_frame, pan_offset_x, pan_offset_y,
                               mask_edit_mode, brush_size>>
    /\ UNCHANGED <<app_vars, file, calc>>

----------------------------------------------------------------------------
(* CameraWidget: keyboard and wheel *)

\* an arrow key's pan step, (dx, dy) in units of pan_step
ArrowStep(key) ==
    CASE key = "Left"  -> <<1, 0>>
      [] key = "Right" -> <<-1, 0>>
      [] key = "Up"    -> <<0, 1>>
      [] key = "Down"  -> <<0, -1>>

keyPressEvent(key, o) ==
    /\ IF mask_edit_mode /\ frozen_locked /\ key \in {"A", "E", "[", "]"}
       THEN /\ mask_add_mode' = CASE key = "A" -> TRUE
                                  [] key = "E" -> FALSE
                                  [] OTHER -> mask_add_mode
            /\ brush_size' = CASE key = "[" -> Max(BrushMin, brush_size - BrushStep)
                               [] key = "]" -> Min(BrushMax, brush_size + BrushStep)
                               [] OTHER -> brush_size
            /\ ev' = Ev("other", FALSE, FALSE, Unrendered)
            /\ UNCHANGED <<is_frozen, frozen_locked, last_raw_frame, last_zoom,
                           pan_offset_x, pan_offset_y, drag_start_pos, last_paint_pos,
                           mask_edit_mode, user_mask_additions, user_mask_removals,
                           display_crop, processed_frame_size, pixmap>>
       ELSE IF is_frozen /\ key \in {"Left", "Right", "Up", "Down"}
       THEN \E d \in {ArrowStep(key)} :
            \E px \in {ClampPan(last_zoom, pan_offset_x + d[1] * (PanDen \div PanStepDen))},
               py \in {ClampPan(last_zoom, pan_offset_y + d[2] * (PanDen \div PanStepDen))} :
            \E r \in {RequestRerender(is_frozen, px, py, user_mask_additions,
                                       user_mask_removals, o)} :
                /\ pan_offset_x' = px
                /\ pan_offset_y' = py
                /\ ApplyRender(r)
                /\ ev' = [Ev("other", FALSE, TRUE, r) EXCEPT !.pan = TRUE]
                /\ UNCHANGED <<is_frozen, frozen_locked, last_raw_frame,
                               drag_start_pos, last_paint_pos, mask_edit_mode,
                               mask_add_mode, user_mask_additions,
                               user_mask_removals, brush_size>>
       ELSE /\ ev' = Ev("other", FALSE, FALSE, Unrendered)
            /\ UNCHANGED widget_vars
    /\ UNCHANGED <<app_vars, file, calc>>

\* wheelEvent: pixel is event.pixelDelta(), angle is event.angleDelta(), each <<x, y>>
wheelEvent(pixel, angle, o) ==
    /\ IF mask_edit_mode /\ frozen_locked
       THEN /\ brush_size' =
                   IF angle[2] # 0
                   THEN Max(BrushMin, Min(BrushMax,
                            brush_size + (IF angle[2] > 0 THEN BrushStep ELSE -BrushStep)))
                   ELSE brush_size
            /\ ev' = Ev("other", FALSE, FALSE, Unrendered)
            /\ UNCHANGED <<is_frozen, frozen_locked, last_raw_frame, last_zoom,
                           pan_offset_x, pan_offset_y, drag_start_pos, last_paint_pos,
                           mask_edit_mode, mask_add_mode, user_mask_additions,
                           user_mask_removals, display_crop, processed_frame_size,
                           pixmap>>
       ELSE IF is_frozen /\ last_zoom # None /\ last_zoom[1] > ZoomOne
                 /\ last_raw_frame # None
       THEN \* dx / w * 4, with dx = pixel.x or angle.x / 8
            \E sx \in {IF pixel # <<0, 0>>
                        THEN pixel[1] * 4 * (PanDen \div RawW)
                        ELSE angle[1] * (PanDen \div (2 * RawW))},
               sy \in {IF pixel # <<0, 0>>
                        THEN pixel[2] * 4 * (PanDen \div RawH)
                        ELSE angle[2] * (PanDen \div (2 * RawH))} :
            \E px \in {ClampPan(last_zoom, pan_offset_x + sx)},
               py \in {ClampPan(last_zoom, pan_offset_y + sy)} :
            \E r \in {RequestRerender(is_frozen, px, py, user_mask_additions,
                                       user_mask_removals, o)} :
                /\ pan_offset_x' = px
                /\ pan_offset_y' = py
                /\ ApplyRender(r)
                /\ ev' = [Ev("other", FALSE, TRUE, r) EXCEPT !.pan = TRUE]
                /\ UNCHANGED <<is_frozen, frozen_locked, last_raw_frame,
                               drag_start_pos, last_paint_pos, mask_edit_mode,
                               mask_add_mode, user_mask_additions,
                               user_mask_removals, brush_size>>
       ELSE /\ ev' = Ev("other", FALSE, FALSE, Unrendered)
            /\ UNCHANGED widget_vars
    /\ UNCHANGED <<app_vars, file, calc>>

----------------------------------------------------------------------------
(* DigitalMirrorApp *)

\* a tick that returns before camera.read()
TickSkipped ==
    /\ ev' = Ev("tick", FALSE, FALSE, Unrendered)
    /\ UNCHANGED <<widget_vars, app_vars, file, calc>>

\* TickRead handing sticker mode and the segmenter to the render
TickReadSegmenting(ret, f) ==
    IF ~ret
    THEN /\ ev' = Ev("tick", TRUE, FALSE, Unrendered)
         /\ UNCHANGED <<widget_vars, app_vars, file, calc>>
    ELSE \E o \in {[kind |-> "no_face"]} :
         \E r \in {RenderFrame(f, zoom_level, 0, 0, bg_removal_enabled,
                                 selfie_segmentation, user_mask_additions,
                                 user_mask_removals, display_crop,
                                 processed_frame_size, o)} :
             /\ pan_offset_x' = 0
             /\ pan_offset_y' = 0
             /\ mask_edit_btn' = FALSE
             /\ last_raw_frame' = Some(f)
             /\ ApplyRender(r)
             /\ ev' = Ev("tick", TRUE, FALSE, r)
             /\ UNCHANGED <<is_frozen, frozen_locked, drag_start_pos, last_paint_pos,
                            mask_edit_mode, mask_add_mode, user_mask_additions,
                            user_mask_removals, brush_size, zoom_level, zoom_slider,
                            bg_removal_enabled, selfie_segmentation, file, calc>>

\* _update_frame from camera.read() on: (ret, f) is what the camera returns
TickRead(ret, f) ==
    IF ~ret
    THEN /\ ev' = Ev("tick", TRUE, FALSE, Unrendered)
         /\ UNCHANGED <<widget_vars, app_vars, file, calc>>
    ELSE \E r \in {RenderFrame(f, zoom_level, 0, 0, FALSE, FALSE,
                                 user_mask_additions, user_mask_removals,
                                 display_crop, processed_frame_size,
                                 [kind |-> "no_face"])} :
             /\ pan_offset_x' = 0
             /\ pan_offset_y' = 0
             /\ mask_edit_btn' = FALSE
             /\ last_raw_frame' = Some(f)
             /\ ApplyRender(r)
             /\ ev' = Ev("tick", TRUE, FALSE, r)
             /\ UNCHANGED <<is_frozen, frozen_locked, drag_start_pos, last_paint_pos,
                            mask_edit_mode, mask_add_mode, user_mask_additions,
                            user_mask_removals, brush_size, zoom_level, zoom_slider,
                            bg_removal_enabled, selfie_segmentation, file, calc>>

\* update_frame without the test of is_frozen
update_frame_while_frozen(opened, ret, f) ==
    IF ~opened THEN TickSkipped ELSE TickRead(ret, f)

\* _update_frame: opened is whether there is a camera and it is open
update_frame(opened, ret, f) ==
    IF ~opened \/ is_frozen THEN TickSkipped ELSE TickRead(ret, f)

\* the re-render the zoom handlers issue when frozen
ZoomRerender(zoom, lz, crop, psize, pm, o) ==
    IF is_frozen
    THEN RerenderFrozenFrame(last_raw_frame, zoom, pan_offset_x, pan_offset_y,
                             bg_removal_enabled, selfie_segmentation,
                             user_mask_additions, user_mask_removals,
                             lz, crop, psize, pm, o)
    ELSE NoRender(lz, crop, psize, pm)

\* _on_zoom_changed(value): the slider's valueChanged signal
on_zoom_changed(value, o) ==
    \E r \in {ZoomRerender(value * (ZoomUnit \div SliderUnit), last_zoom, display_crop,
                            processed_frame_size, pixmap, o)} :
        /\ value \in ZoomSliderMin .. ZoomSliderMax
        /\ value # zoom_slider
        /\ zoom_slider' = value
        /\ zoom_level' = value * (ZoomUnit \div SliderUnit)
        /\ ApplyRender(r)
        /\ ev' = Ev("other", FALSE, FALSE, r)
        /\ UNCHANGED <<is_frozen, frozen_locked, last_raw_frame, pan_offset_x,
                       pan_offset_y, drag_start_pos, last_paint_pos, mask_edit_mode,
                       mask_add_mode, user_mask_additions, user_mask_removals,
                       brush_size, bg_removal_enabled, selfie_segmentation,
                       mask_edit_btn, file, calc>>

\* _on_pinch_zoom(scale_factor), scale_factor = n/d; o1 and o2 are the
\* capabilities' answers to its two renders
on_pinch_zoom(n, d, o1, o2) ==
    \E new_zoom \in {Max(ZoomOne, Min((ZoomSliderMax \div SliderUnit) * ZoomUnit,
                                        (zoom_level * n) \div d))} :
    \* zoom_slider.setValue(int(new_zoom * 100)), kept in the slider's range
    \E value \in {Max(ZoomSliderMin, Min(ZoomSliderMax,
                        (new_zoom * SliderUnit) \div ZoomUnit))} :
    \* valueChanged -> _on_zoom_changed(value), when the value changes
    \E zoom \in {IF value # zoom_slider THEN value * (ZoomUnit \div SliderUnit)
                  ELSE new_zoom} :
    \E r1 \in {IF value # zoom_slider
                THEN ZoomRerender(zoom, last_zoom, display_crop, processed_frame_size,
                                  pixmap, o1)
                ELSE Unrendered} :
    \E r2 \in {ZoomRerender(zoom, r1.last_zoom, r1.display_crop,
                             r1.processed_frame_size, r1.pixmap, o2)} :
        /\ (zoom_level * n) % d = 0
        /\ zoom_slider' = value
        /\ zoom_level' = zoom
        /\ ApplyRender(r2)
        /\ ev' = Ev("other", FALSE, FALSE, r2)
        /\ UNCHANGED <<is_frozen, frozen_locked, last_raw_frame, pan_offset_x,
                       pan_offset_y, drag_start_pos, last_paint_pos, mask_edit_mode,
                       mask_add_mode, user_mask_additions, user_mask_removals,
                       brush_size, bg_removal_enabled, selfie_segmentation,
                       mask_edit_btn, file, calc>>

\* toggle_bg_removal without the except branch's reset: sticker mode stays
\* on when _init_segmenter fails
toggle_bg_removal_left_on(init_ok) ==
    /\ bg_removal_enabled' = ~bg_removal_enabled
    /\ selfie_segmentation' = (selfie_segmentation \/ (~bg_removal_enabled /\ init_ok))
    /\ ev' = [Ev("other", FALSE, FALSE, Unrendered)
                EXCEPT !.init = IF bg_removal_enabled \/ selfie_segmentation THEN "none"
                                ELSE IF init_ok THEN "ok" ELSE "failed"]
    /\ UNCHANGED <<widget_vars, zoom_level, zoom_slider, mask_edit_btn, file, calc>>

\* _toggle_bg_removal: init_ok is whether _init_segmenter would succeed
toggle_bg_removal(init_ok) ==
    LET enabled == ~bg_removal_enabled
    IN  /\ IF enabled /\ ~selfie_segmentation
           THEN IF init_ok
                THEN bg_removal_enabled' = TRUE /\ selfie_segmentation' = TRUE
                ELSE bg_removal_enabled' = FALSE /\ selfie_segmentation' = FALSE
           ELSE bg_removal_enabled' = enabled /\ UNCHANGED selfie_segmentation
        /\ ev' = [Ev("other", FALSE, FALSE, Unrendered)
                    EXCEPT !.init = IF enabled /\ ~selfie_segmentation
                                    THEN IF init_ok THEN "ok" ELSE "failed"
                                    ELSE "none"]
        /\ UNCHANGED <<widget_vars, zoom_level, zoom_slider, mask_edit_btn, file, calc>>

\* toggle_mask_edit without the refusal when the frame is not locked
toggle_mask_edit_unrefused ==
    /\ mask_edit_mode' = ~mask_edit_mode
    /\ mask_edit_btn' = ~mask_edit_mode
    /\ ev' = Ev("edit", FALSE, FALSE, Unrendered)
    /\ UNCHANGED <<is_frozen, frozen_locked, last_raw_frame, last_zoom, pan_offset_x,
                   pan_offset_y, drag_start_pos, last_paint_pos, mask_add_mode,
                   user_mask_additions, user_mask_removals, brush_size, display_crop,
                   processed_frame_size, pixmap, zoom_level, zoom_slider,
                   bg_removal_enabled, selfie_segmentation, file, calc>>

\* _toggle_mask_edit: the click on the checkable button, then the slot
toggle_mask_edit ==
    /\ IF ~frozen_locked
       THEN /\ mask_edit_btn' = FALSE
            /\ UNCHANGED mask_edit_mode
       ELSE /\ mask_edit_mode' = ~mask_edit_mode
            /\ mask_edit_btn' = ~mask_edit_mode
    /\ ev' = Ev("edit", FALSE, FALSE, Unrendered)
    /\ UNCHANGED <<is_frozen, frozen_locked, last_raw_frame, last_zoom, pan_offset_x,
                   pan_offset_y, drag_start_pos, last_paint_pos, mask_add_mode,
                   user_mask_additions, user_mask_removals, brush_size, display_crop,
                   processed_frame_size, pixmap, zoom_level, zoom_slider,
                   bg_removal_enabled, selfie_segmentation, file, calc>>

----------------------------------------------------------------------------
(* _export_sticker *)

\* the encoder, as a function from a quality to what final.save() and
\* os.path.getsize() give there: [ok, size], the save's result and the size
\* of the file it wrote
Qualities == {q \in QualityStop .. QualityStart : (QualityStart - q) % QualityStep = 0}

\* SizeWithin with the comparison off by one
SizeWithinOneMore(size) == size <= ExportLimit + 1

\* file_size <= 500 * 1024
SizeWithin(size) == size <= ExportLimit

\* SaveLoop going on to the next quality after a failed save
RECURSIVE SaveLoopRetrying(_, _, _, _)
SaveLoopRetrying(q, f, enc, partial) ==
    IF q < QualityStop
    THEN [export |-> "failed", file |-> f, saves |-> 0, tried |-> <<>>]
    ELSE IF enc[q].ok /\ SizeWithin(enc[q].size)
    THEN [export |-> "success", file |-> Some(enc[q].size), saves |-> 1,
          tried |-> <<q>>]
    ELSE LET left == IF enc[q].ok THEN Some(enc[q].size)
                     ELSE IF partial THEN Some(0) ELSE f
             rest == SaveLoopRetrying(q - QualityStep, left, enc, partial)
         IN  [rest EXCEPT !.saves = @ + 1, !.tried = <<q>> \o @]

\* the while loop at quality q with the file f at the path: the result
\* reported, the file left, the number of save calls and their qualities.
\* A failed save leaves the file as it was, or truncated when the write had
\* begun.
RECURSIVE SaveLoop(_, _, _, _)
SaveLoop(q, f, enc, partial) ==
    IF q < QualityStop
    THEN [export |-> "failed", file |-> f, saves |-> 0, tried |-> <<>>]
    ELSE IF ~enc[q].ok
    THEN [export |-> "failed", file |-> IF partial THEN Some(0) ELSE f, saves |-> 1,
          tried |-> <<q>>]
    ELSE IF SizeWithin(enc[q].size)
    THEN [export |-> "success", file |-> Some(enc[q].size), saves |-> 1,
          tried |-> <<q>>]
    ELSE LET rest == SaveLoop(q - QualityStep, Some(enc[q].size), enc, partial)
         IN  [rest EXCEPT !.saves = @ + 1, !.tried = <<q>> \o @]

\* _export_sticker: chosen is whether the file dialog returned a path
export_sticker(chosen, enc, partial) ==
    \E res \in {IF ~frozen_locked
                 THEN [export |-> "not_locked", file |-> file, saves |-> 0,
                       tried |-> <<>>]
                 ELSE IF ~bg_removal_enabled
                 THEN [export |-> "no_sticker_mode", file |-> file, saves |-> 0,
                       tried |-> <<>>]
                 ELSE IF pixmap = None
                 THEN [export |-> "no_image", file |-> file, saves |-> 0,
                       tried |-> <<>>]
                 ELSE IF ~chosen
                 THEN [export |-> "cancelled", file |-> file, saves |-> 0,
                       tried |-> <<>>]
                 ELSE SaveLoop(QualityStart, file, enc, partial)} :
        /\ file' = res.file
        /\ ev' = [Ev("export", FALSE, FALSE, Unrendered)
                    EXCEPT !.export = res.export, !.saves = res.saves,
                           !.qualities = res.tried]
        /\ UNCHANGED <<widget_vars, app_vars, calc>>

----------------------------------------------------------------------------
(* Construction: CameraWidget.__init__, DigitalMirrorApp.__init__ with      *)
(* _load_settings reading a zoom z and sticker mode from the settings       *)

InitWith(zooms) ==
    /\ is_frozen = FALSE
    /\ frozen_locked = FALSE
    /\ last_raw_frame = None
    /\ last_zoom = None
    /\ pan_offset_x = 0
    /\ pan_offset_y = 0
    /\ drag_start_pos = None
    /\ last_paint_pos = None
    /\ mask_edit_mode = FALSE
    /\ mask_add_mode = FALSE
    /\ user_mask_additions = None
    /\ user_mask_removals = None
    /\ brush_size = BrushInit
    /\ display_crop = None
    /\ processed_frame_size = None
    /\ pixmap = None
    /\ mask_edit_btn = FALSE
    /\ file = None
    /\ ev = Ev("other", FALSE, FALSE, NoRender(None, None, None, None))
    /\ calc = [fn |-> "none"]
    /\ \E z \in zooms :
          LET value == Max(ZoomSliderMin, Min(ZoomSliderMax, (z * SliderUnit) \div ZoomUnit))
          IN  /\ zoom_slider = value
              /\ zoom_level = IF value # ZoomSliderMin
                              THEN value * (ZoomUnit \div SliderUnit) ELSE z
    /\ \E stored \in BOOLEAN, init_ok \in BOOLEAN :
          /\ bg_removal_enabled = (stored /\ init_ok)
          /\ selfie_segmentation = (stored /\ init_ok)

----------------------------------------------------------------------------
(* The inputs of the handlers *)

\* what the segmenter and the face detector answer for a frame; only a
\* render in sticker mode asks them
Face(x, y, w, h) == [kind |-> "face", x |-> x, y |-> y, w |-> w, h |-> h]
NoFace == [kind |-> "no_face"]
Outcomes ==
    IF bg_removal_enabled /\ selfie_segmentation
    THEN {[kind |-> "seg_error"], [kind |-> "detect_error"], NoFace, Face(0, 0, 2, 2)}
    ELSE {NoFace}
\* the same without the failures
Answers == Outcomes \ {[kind |-> "seg_error"], [kind |-> "detect_error"]}

\* an encoder whose files are over the limit above quality k and that, at
\* quality k, writes a file of the given size or fails; the loop never asks
\* it below k
Encoder(k, ok, size) ==
    [q \in Qualities |-> IF q = k THEN [ok |-> ok, size |-> size]
                         ELSE [ok |-> TRUE, size |-> ExportLimit + 1]]
Encoders ==
    {Encoder(k, ok, ExportLimit) : k \in Qualities, ok \in BOOLEAN}
        \cup {Encoder(QualityStop, TRUE, ExportLimit + 1)}

\* pointer positions in widget coordinates: one above the pixmap, the
\* others inside it
PosAbove == <<1, 0>>
PosInside == <<1, 3>>
PosInside2 == <<10, 4>>

----------------------------------------------------------------------------
(* Spec: freezing, sticker mode, mask edit mode and export at zoom 1.0.     *)
(* The camera delivers two different frames or none; the user presses at    *)
(* one place inside the picture, and every export fits at the first save.   *)

Init == InitWith({ZoomOne})

MousePress ==
    \E b \in {"left", "right"}, o \in Outcomes : mousePressEvent(b, PosInside, o)
MouseMove == \E o \in Outcomes : mouseMoveEvent(PosInside, o)
MouseRelease == mouseReleaseEvent
MouseDoubleClick ==
    \E o1 \in Outcomes, o2 \in Outcomes : mouseDoubleClickEvent("left", PosInside, o1, o2)
KeyPress == \E key \in {"A", "E", "Left"}, o \in Outcomes : keyPressEvent(key, o)
TimerTick == \E opened \in BOOLEAN, ret \in BOOLEAN, f \in {1, 2} : update_frame(opened, ret, f)
ToggleSticker == \E init_ok \in BOOLEAN : toggle_bg_removal(init_ok)
ToggleMaskEdit == toggle_mask_edit
ExportSticker ==
    \E chosen \in BOOLEAN :
        export_sticker(chosen, Encoder(QualityStart, TRUE, ExportLimit), FALSE)

Next ==
    \/ MousePress
    \/ MouseMove
    \/ MouseRelease
    \/ MouseDoubleClick
    \/ KeyPress
    \/ TimerTick
    \/ ToggleSticker
    \/ ToggleMaskEdit
    \/ ExportSticker

Spec == Init /\ [][Next]_vars

----------------------------------------------------------------------------
(* SpecPaint: mask painting at zoom 1.0.  One camera frame; the user paints *)
(* at two places inside the picture and one outside it, with either button  *)
(* and in either mode.                                                      *)

PaintPress ==
    \E b \in {"left", "right"}, pos \in {PosAbove, PosInside, PosInside2}, o \in Answers :
        mousePressEvent(b, pos, o)
PaintMove == \E pos \in {PosAbove, PosInside, PosInside2}, o \in Answers : mouseMoveEvent(pos, o)
PaintRelease == mouseReleaseEvent
PaintDoubleClick == \E o \in Answers : mouseDoubleClickEvent("left", PosInside, o, o)
PaintKey == \E key \in {"A", "E"}, o \in Answers : keyPressEvent(key, o)
PaintTick == \E ret \in BOOLEAN : update_frame(TRUE, ret, 1)
PaintToggleEdit == toggle_mask_edit

NextPaint ==
    \/ PaintPress
    \/ PaintMove
    \/ PaintRelease
    \/ PaintDoubleClick
    \/ PaintKey
    \/ PaintTick
    \/ PaintToggleEdit

SpecPaint == Init /\ [][NextPaint]_vars

----------------------------------------------------------------------------
(* SpecBrush: mask painting with sticker mode off at zoom 1.0, with brushes *)
(* of four sizes at two places inside the picture.                          *)

InitBrush == Init /\ ~bg_removal_enabled

BrushPress ==
    \E b \in {"left", "right"}, pos \in {PosInside, PosInside2}, o \in Answers :
        mousePressEvent(b, pos, o)
BrushMove == \E pos \in {PosInside, PosInside2}, o \in Answers : mouseMoveEvent(pos, o)
BrushKey == \E key \in {"A", "["}, o \in Answers : keyPressEvent(key, o)
BrushTick == update_frame(TRUE, TRUE, 1)

NextBrush ==
    \/ BrushPress
    \/ BrushMove
    \/ PaintRelease
    \/ PaintDoubleClick
    \/ BrushKey
    \/ BrushTick
    \/ PaintToggleEdit

SpecBrush == InitBrush /\ [][NextBrush]_vars

----------------------------------------------------------------------------
(* SpecPan: panning and zooming with sticker mode off.  One camera frame or *)
(* none; the user pans with the arrow keys, the wheel and by dragging, and  *)
(* zooms with the slider and by pinching.                                   *)

InitPan == InitWith({ZoomOne}) /\ ~bg_removal_enabled

PanPress == \E pos \in {PosInside, PosInside2}, o \in Outcomes : mousePressEvent("left", pos, o)
PanMove == \E pos \in {PosInside, PosInside2}, o \in Outcomes : mouseMoveEvent(pos, o)
PanKey == \E key \in {"Left", "Right"}, o \in Outcomes : keyPressEvent(key, o)
PanWheel == \E o \in Outcomes : wheelEvent(<<0, 0>>, <<0, 120>>, o)
PanZoomSlider == \E value \in {100, 200, 400}, o \in Outcomes : on_zoom_changed(value, o)
PanPinch == \E o1 \in Outcomes, o2 \in Outcomes : on_pinch_zoom(1, 2, o1, o2)

NextPan ==
    \/ PanPress
    \/ PanMove
    \/ MouseRelease
    \/ MouseDoubleClick
    \/ PanKey
    \/ PanWheel
    \/ PaintTick
    \/ PanZoomSlider
    \/ PanPinch

SpecPan == InitPan /\ [][NextPan]_vars

----------------------------------------------------------------------------
(* SpecExport: the export loop against every encoder behaviour that is      *)
(* distinct up to the loop's first deciding save.                           *)

ExportAny ==
    \E chosen \in BOOLEAN, enc \in Encoders, partial \in BOOLEAN :
        export_sticker(chosen, enc, partial)

NextExport ==
    \/ MouseDoubleClick
    \/ MouseRelease
    \/ PaintTick
    \/ ToggleSticker
    \/ ExportAny

SpecExport == Init /\ [][NextExport]_vars

----------------------------------------------------------------------------
(* SpecPaintZoom: mask painting with the zoom the settings hold, 1.0 or     *)
(* 2.0, with sticker mode switched on and off.  One camera frame; the user  *)
(* presses at two places inside the picture and one outside it.             *)

InitPaintZoom == InitWith({ZoomOne, 2 * ZoomOne})

NextPaintZoom ==
    \/ PaintPress
    \/ PaintRelease
    \/ PaintDoubleClick
    \/ PaintTick
    \/ PaintToggleEdit
    \/ ToggleSticker

SpecPaintZoom == InitPaintZoom /\ [][NextPaintZoom]_vars

----------------------------------------------------------------------------
(* SpecBrushSize: the brush radius under the wheel and the bracket keys,    *)
(* with sticker mode off at zoom 1.0 and no strokes.                        *)

BrushSizeKey == \E key \in {"[", "]"}, o \in Outcomes : keyPressEvent(key, o)
BrushSizeWheel ==
    \E dy \in {-120, 0, 120}, o \in Outcomes : wheelEvent(<<0, 0>>, <<120, dy>>, o)

NextBrushSize ==
    \/ BrushSizeKey
    \/ BrushSizeWheel
    \/ MouseDoubleClick
    \/ MouseRelease
    \/ PaintTick
    \/ ToggleMaskEdit

SpecBrushSize == InitBrush /\ [][NextBrushSize]_vars

----------------------------------------------------------------------------
(* SpecZoom: the zoom level from the settings load on, with sticker mode    *)
(* off.  The settings hold a zoom of 0.5, 1.0 or 7.0; the user moves the    *)
(* slider and pinches by 1/2 and 2.                                         *)

InitZoom ==
    /\ InitWith({ZoomOne \div 2, ZoomOne, 7 * ZoomOne})
    /\ ~bg_removal_enabled

ZoomSlider == \E value \in {100, 300, 500}, o \in Outcomes : on_zoom_changed(value, o)
ZoomPinch ==
    \E f \in {<<1, 2>>, <<2, 1>>}, o1 \in Outcomes, o2 \in Outcomes :
        on_pinch_zoom(f[1], f[2], o1, o2)

NextZoom ==
    \/ ZoomSlider
    \/ ZoomPinch
    \/ MouseDoubleClick
    \/ MouseRelease
    \/ PaintTick

SpecZoom == InitZoom /\ [][NextZoom]_vars

----------------------------------------------------------------------------
(* SpecLayerZoom: mask painting in sticker mode while the zoom slider moves *)
(* between 1.0 and 2.0, so that layers painted at one zoom meet the frame   *)
(* of the other.                                                            *)

InitLayerZoom == InitWith({ZoomOne}) /\ bg_removal_enabled

LayerZoomSlider == \E value \in {100, 200}, o \in Answers : on_zoom_changed(value, o)

NextLayerZoom ==
    \/ PaintPress
    \/ PaintRelease
    \/ PaintDoubleClick
    \/ PaintTick
    \/ PaintKey
    \/ PaintToggleEdit
    \/ LayerZoomSlider

SpecLayerZoom == InitLayerZoom /\ [][NextLayerZoom]_vars

----------------------------------------------------------------------------
(* SpecLiveTick: timer ticks between freezes at a zoom above 1.0, with      *)
(* sticker mode switched on and off.  The settings hold the zoom 2.0; the   *)
(* camera delivers two different frames or none; the user holds, locks and  *)
(* pans with the arrow keys.                                                *)

InitLiveTick == InitWith({2 * ZoomOne})

NextLiveTick ==
    \/ MousePress
    \/ MouseRelease
    \/ MouseDoubleClick
    \/ PanKey
    \/ TimerTick
    \/ ToggleSticker

SpecLiveTick == InitLiveTick /\ [][NextLiveTick]_vars

----------------------------------------------------------------------------
(* SpecPipeline: the stages of _render_frame and _paint_at_position that    *)
(* work on pixel values and coordinates, each applied once to inputs drawn  *)
(* from small sets.  The rasters are TileW x TileH.                         *)

TilePixels == (0 .. TileW - 1) \X (0 .. TileH - 1)

\* the mask whose pixels are the rectangle [x1, x2) x [y1, y2)
Rect(x1, y1, x2, y2) ==
    [h |-> TileH, w |-> TileW,
     px |-> {q : q \in {p \in TilePixels :
                            x1 <= p[1] /\ p[1] < x2 /\ y1 <= p[2] /\ p[2] < y2}}]
\* the rectangles that reach the lower edge, the empty mask among them
Rects ==
    {Rect(x1, y1, x2, TileH) : x1 \in 0 .. TileW - 1, x2 \in 1 .. TileW,
                               y1 \in 0 .. TileH - 1}

\* the layers two strokes of _paint_at_position leave on a raster of shape
\* (h, w): a stroke at c1, then a stroke of the other mode at c2
StrokePair(h, w, c1, c2, add_first) ==
    LET zero == [h |-> h, w |-> w, px |-> {}]
        d1 == Disc(c1[1], c1[2], BrushMin, h, w)
        d2 == Disc(c2[1], c2[2], BrushMin, h, w)
        first == ClearDisc(DrawDisc(zero, d1), d2)
        second == DrawDisc(ClearDisc(zero, d1), d2)
    IN  IF add_first
        THEN [adds |-> Some(first), rems |-> Some(second)]
        ELSE [adds |-> Some(second), rems |-> Some(first)]
StrokeCentres == {<<0, 0>>, <<TileW - 1, TileH - 1>>, <<TileW \div 2, 0>>}
LayerPairs ==
    {StrokePair(TileH, TileW, c1, c2, af) :
        c1 \in StrokeCentres, c2 \in StrokeCentres, af \in BOOLEAN}
      \cup {StrokePair(TileH + 1, TileW, <<0, 0>>, <<TileW - 1, 0>>, TRUE)}
      \cup {[adds |-> None, rems |-> None]}

\* the mask combination applied to a base mask, and once more to its result
CombineMasks ==
    /\ calc.fn = "none"
    /\ \E base \in Rects, l \in LayerPairs :
       \E once \in {Combine(base, l.adds, l.rems)} :
           /\ calc' = [fn |-> "combine", base |-> base, adds |-> l.adds, rems |-> l.rems,
                       once |-> once, twice |-> Combine(once, l.adds, l.rems)]
           /\ UNCHANGED <<widget_vars, app_vars, file, ev>>

\* the zoom levels of the slider positions 100, 125, ..., 500
SliderZooms ==
    {v * (ZoomUnit \div SliderUnit) :
        v \in {u \in ZoomSliderMin .. ZoomSliderMax : u % 25 = 0}}

\* the pointer mapping of _paint_at_position with no display crop, for a
\* frame shown at a slider zoom: in sticker mode (no face found) the
\* processed frame size is the shown frame's, otherwise it is not set and the
\* raw frame's size is used
MapPointer ==
    /\ calc.fn = "none"
    /\ \E zoom \in SliderZooms, sticker \in BOOLEAN, pos \in (0 .. WidgetW - 1) \X (0 .. WidgetH - 1) :
       \E g \in {GeometryTransform(1, zoom, 0, 0)} :
       \E pm \in {ScaledSize(g.w, g.h)},
          psize \in {IF sticker THEN Some([h |-> g.h, w |-> g.w]) ELSE None} :
           /\ InPixmap(pos, pm)
           /\ calc' = [fn |-> "map", pos |-> pos, pm |-> pm, psize |-> psize,
                       point |-> FramePoint(pos, pm, None, psize)]
           /\ UNCHANGED <<widget_vars, app_vars, file, ev>>

\* the outline stage of _render_frame applied to a combined mask
ComposeOutline ==
    /\ calc.fn = "none"
    /\ \E m \in Rects :
       \E mask \in {Smooth(m, Gauss7)} :
       \E dilated \in {Smooth(Dilate(mask), Gauss5)} :
           /\ calc' = [fn |-> "outline", input |-> m, mask |-> mask, dilated |-> dilated,
                       outline |-> Outline(dilated, mask)]
           /\ UNCHANGED <<widget_vars, app_vars, file, ev>>

\* the brightness adjustment applied to a sample, for a brightness of the
\* slider's range
AdjustBrightness ==
    /\ calc.fn = "none"
    /\ \E v \in 0 .. SampleMax, b \in BrightnessMin .. BrightnessMax :
           /\ calc' = [fn |-> "brightness", v |-> v, b |-> b, out |-> Brightness(v, b)]
           /\ UNCHANGED <<widget_vars, app_vars, file, ev>>

\* the zoom crop for a zoom of the slider or one a pinch leaves between two
\* slider positions, and pan offsets of up to 0.8 in pan steps
CropWindow ==
    /\ calc.fn = "none"
    /\ \E zoom \in SliderZooms \cup {ZoomOne + 4, 3 * ZoomOne + 333},
          kx \in {-16, -10, -3, 0, 3, 10, 16}, ky \in {-16, -10, -3, 0, 3, 10, 16} :
       \E panx \in {kx * (PanDen \div PanStepDen)}, pany \in {ky * (PanDen \div PanStepDen)} :
           /\ calc' = [fn |-> "crop", zoom |-> zoom, panx |-> panx, pany |-> pany,
                       g |-> GeometryTransform(1, zoom, panx, pany)]
           /\ UNCHANGED <<widget_vars, app_vars, file, ev>>

\* the face boxes the detector may answer in a FaceFrameW x FaceFrameH
\* frame: near each border, in the middle, and the box (10, 10, 40, 40)
FaceBoxes ==
    {o \in {Face(x, y, w, h) : x \in {0, 10, 60, 110}, y \in {0, 10, 40, 70},
                               w \in {40, 50}, h \in {40, 50}} :
        FaceFound(o, FaceFrameW, FaceFrameH)}

\* the face crop of _render_frame for a detected face, and the pointer
\* mapping of _paint_at_position on the pixmap that shows the cropped image
MapPointerCropped ==
    /\ calc.fn = "none"
    /\ \E o \in FaceBoxes, pos \in (0 .. WidgetW - 1) \X (0 .. WidgetH - 1) :
       \E crop \in {FaceCrop(o, FaceFrameW, FaceFrameH)},
          psize \in {Some([h |-> FaceFrameH, w |-> FaceFrameW])} :
       \E pm \in {ScaledSize(crop.x2 - crop.x1, crop.y2 - crop.y1)} :
           /\ InPixmap(pos, pm)
           /\ calc' = [fn |-> "mapcrop", face |-> o, ellipse |-> HeadEllipse(o),
                       crop |-> crop, pos |-> pos,
                       pm |-> pm, psize |-> psize,
                       point |-> FramePoint(pos, pm, Some(crop), psize)]
           /\ UNCHANGED <<widget_vars, app_vars, file, ev>>

NextPipeline ==
    \/ CombineMasks
    \/ MapPointer
    \/ MapPointerCropped
    \/ ComposeOutline
    \/ AdjustBrightness
    \/ CropWindow

\* the stages start from the one state of a freshly constructed window with
\* sticker mode off
InitPipeline == Init /\ ~bg_removal_enabled

SpecPipeline == InitPipeline /\ [][NextPipeline]_vars

----------------------------------------------------------------------------
(* Properties *)

Layers == <<user_mask_additions, user_mask_removals>>

\* both pan offsets are within max(0, 1 - 1/z) of zero
PanWithin(z) == Abs(pan_offset_x) <= MaxPan(z) /\ Abs(pan_offset_y) <= MaxPan(z)

\* the position lies outside the displayed pixmap pm
OutsidePixmap(pos, pm) ==
    LET p == PixmapPoint(pos, pm)
    IN  p.x < 0 \/ p.y < 0 \/ p.x >= pm.w \/ p.y >= pm.h

\* C11: combining a base mask with an unchanged user layer of matching
\* dimensions is idempotent: combine(combine(base, layer), layer) equals
\* combine(base, layer)
CombineIdempotent ==
    calc.fn = "combine" /\ LayerApplies(calc.adds, calc.base.h, calc.base.w)
                        /\ LayerApplies(calc.rems, calc.base.h, calc.base.w)
        => calc.twice = calc.once

\* a combination that both added pixels to the base mask and removed pixels
\* from it
CombineIdempotentWitness ==
    /\ calc.fn = "combine"
    /\ LayerApplies(calc.adds, calc.base.h, calc.base.w)
    /\ LayerApplies(calc.rems, calc.base.h, calc.base.w)
    /\ calc.once.px \ calc.base.px # {}
    /\ calc.base.px \ calc.once.px # {}
    /\ calc.twice = calc.once

\* a processed-frame point scaled back to pixmap coordinates
DisplayPoint(m, pm) ==
    [x |-> (m.fx * pm.w) \div m.proc_w, y |-> (m.fy * pm.h) \div m.proc_h]

\* how far the point scaled back falls short of the pointer, in each axis
RoundTripError ==
    LET p == PixmapPoint(calc.pos, calc.pm)
        b == DisplayPoint(calc.point, calc.pm)
    IN  [x |-> p.x - b.x, y |-> p.y - b.y]

CeilDiv(a, b) == (a + b - 1) \div b

\* C12 (as stated): with no display crop, mapping a point inside the pixmap
\* to processing coordinates and scaling back recovers the point within one
\* pixel in each axis, for every pixmap size and processed-frame size
CoordinateRoundTrip ==
    calc.fn = "map" => Abs(RoundTripError.x) <= 1 /\ Abs(RoundTripError.y) <= 1

\* C12 (amended): the point scaled back is never beyond the pointer and
\* falls short of it by at most ceil((pixmap size - 1) / processed size)
\* pixels in each axis, which is within one pixel when the pixmap is no
\* larger than the processed frame
CoordinateRoundTripScaled ==
    calc.fn = "map" =>
        /\ 0 <= RoundTripError.x
        /\ RoundTripError.x <= CeilDiv(calc.pm.w - 1, calc.point.proc_w)
        /\ 0 <= RoundTripError.y
        /\ RoundTripError.y <= CeilDiv(calc.pm.h - 1, calc.point.proc_h)

\* a pointer on a pixmap three times as wide as the processed frame, whose
\* point comes back two pixels to its left
CoordinateRoundTripScaledWitness ==
    /\ calc.fn = "map"
    /\ calc.psize # None
    /\ calc.pm.w >= 3 * calc.point.proc_w
    /\ RoundTripError.x = 2

\* C13: in every composited frame no pixel is both in the smoothed core mask
\* and in the outline clamp(dilated - mask, 0, 1) computed on 8-bit unsigned
\* values
OutlineNonOverlap ==
    calc.fn = "outline" => calc.outline.px \cap calc.mask.px = {}

\* a composited frame with a core mask, an outline around it and pixels
\* outside both
OutlineNonOverlapWitness ==
    /\ calc.fn = "outline"
    /\ calc.mask.px # {}
    /\ calc.outline.px # {}
    /\ calc.dilated.px # Pixels(calc.mask)

\* C14: the brightness adjustment is a saturating additive offset: for every
\* sample v in 0..255 and every brightness b in [-50, 100] the output sample
\* is min(255, max(0, v + b)), with no wraparound and no sign flip
BrightnessSaturates ==
    calc.fn = "brightness" => calc.out = Min(SampleMax, Max(0, calc.v + calc.b))

\* C15: for every zoom in (1.0, 5.0] and every pan offset the zoom crop
\* window has size floor(w / zoom) x floor(h / zoom) and its origin lies in
\* [0, w - cropW] x [0, h - cropH]; at zoom 1.0 the whole frame is used
ZoomCropWithinFrame ==
    calc.fn = "crop" =>
        IF calc.zoom > ZoomOne
        THEN /\ calc.g.w = (RawW * ZoomUnit) \div calc.zoom
             /\ calc.g.h = (RawH * ZoomUnit) \div calc.zoom
             /\ 0 <= calc.g.x1 /\ calc.g.x1 <= RawW - calc.g.w
             /\ 0 <= calc.g.y1 /\ calc.g.y1 <= RawH - calc.g.h
        ELSE calc.g.x1 = 0 /\ calc.g.y1 = 0 /\ calc.g.w = RawW /\ calc.g.h = RawH

\* a crop window smaller than the frame, panned against the frame's left
\* and lower edges
ZoomCropWithinFrameWitness ==
    /\ calc.fn = "crop"
    /\ calc.zoom > ZoomOne
    /\ calc.g.w < RawW /\ calc.g.h < RawH
    /\ calc.panx > 0 /\ calc.g.x1 = 0
    /\ calc.pany < 0 /\ calc.g.y1 = RawH - calc.g.h

\* C16: in every reachable state the zoom level lies in [1.0, 5.0], after
\* any sequence of settings load, zoom-slider changes and pinch gestures
ZoomInRange ==
    /\ ZoomOne <= zoom_level
    /\ zoom_level <= (ZoomSliderMax \div SliderUnit) * ZoomUnit

\* C17: in every reachable state the brush radius lies in [5, 100], after
\* any sequence of scroll-wheel and '[' / ']' key adjustments, and the brush
\* radius changes only while mask edit mode is on and the frame is locked
BrushWithinRange ==
    /\ [](BrushMin <= brush_size /\ brush_size <= BrushMax)
    /\ [][brush_size' # brush_size => mask_edit_mode /\ frozen_locked]_vars

\* the brush has been taken to its largest radius in mask edit mode
BrushWithinRangeWitness ==
    /\ brush_size = BrushMax
    /\ mask_edit_mode /\ frozen_locked

\* the shape of a layer
Shape(layer) == [h |-> layer[1].h, w |-> layer[1].w]

\* C18: whenever a paint stroke creates or recreates the additions and
\* removals layers, their dimensions are those of the current processing
\* frame (the frame after zoom and pan, before the face crop), at every zoom
\* and with sticker mode on or off, and a layer so replaced is zero-filled
\* before the stroke is painted
LayerDimensionsMatchFrame ==
    [][ev'.op = "mouse" /\ ev'.paint = "drawn"
         /\ (user_mask_additions = None
               \/ Shape(user_mask_additions') # Shape(user_mask_additions))
       => LET frame == pixmap[1].img.geom
              m == FramePoint(last_paint_pos'[1], pixmap[1], display_crop,
                              processed_frame_size)
          IN  /\ Shape(user_mask_additions') = [h |-> frame.h, w |-> frame.w]
              /\ Shape(user_mask_removals') = [h |-> frame.h, w |-> frame.w]
              /\ user_mask_additions'[1].px \cup user_mask_removals'[1].px
                    = Disc(m.fx, m.fy, brush_size, frame.h, frame.w)]_vars

\* C19: a press while live (not frozen, not locked) freezes the frame
\* without locking it; every release while the frame is not locked leaves it
\* not frozen, so that the next successful timer tick replaces the raw frame;
\* a release while locked leaves the frame locked and frozen
HoldFreezesReleaseResumes ==
    [][/\ ~is_frozen /\ ~frozen_locked /\ ev'.op = "mouse"
            /\ (\E b \in {"left", "right"}, o \in Outcomes :
                   mousePressEvent(b, PosInside, o))
          => is_frozen' /\ ~frozen_locked'
       /\ ~frozen_locked /\ mouseReleaseEvent
          => ~is_frozen' /\ ~frozen_locked'
       /\ frozen_locked /\ mouseReleaseEvent
          => frozen_locked' /\ is_frozen' = is_frozen
       /\ \A f \in {1, 2} :
             ~is_frozen /\ ev'.op = "tick" /\ update_frame(TRUE, TRUE, f)
                => last_raw_frame' = Some(f)]_vars

\* the frame is held frozen by a press, a tick having replaced the first frame
\* before
HoldFreezesReleaseResumesWitness ==
    /\ is_frozen /\ ~frozen_locked
    /\ ev.op = "mouse" /\ ev.rerender
    /\ last_raw_frame = Some(2)

\* C20: a paint stroke at processing point p with radius r, on layers whose
\* dimensions already match the processing frame, sets every pixel of the
\* radius-r disc around p to 1 in the layer of its mode (additions in Add mode,
\* removals in Erase mode) and to 0 in the other layer, and leaves every pixel
\* outside the disc as it was in both layers
StrokePaintsDisc ==
    [][ev'.op = "mouse" /\ ev'.paint = "drawn"
         /\ user_mask_additions # None /\ user_mask_removals # None
       => LET m == FramePoint(last_paint_pos'[1], pixmap[1], display_crop,
                              processed_frame_size)
              size == [h |-> m.proc_h, w |-> m.proc_w]
              d == Disc(m.fx, m.fy, brush_size, m.proc_h, m.proc_w)
              outside == ((0 .. m.proc_w - 1) \X (0 .. m.proc_h - 1)) \ d
              set == IF mask_add_mode' THEN user_mask_additions
                                       ELSE user_mask_removals
              set_after == IF mask_add_mode' THEN user_mask_additions'
                                             ELSE user_mask_removals'
              cleared == IF mask_add_mode' THEN user_mask_removals
                                           ELSE user_mask_additions
              cleared_after == IF mask_add_mode' THEN user_mask_removals'
                                                 ELSE user_mask_additions'
          IN  Shape(user_mask_additions) = size /\ Shape(user_mask_removals) = size
                => /\ Shape(set_after) = size /\ Shape(cleared_after) = size
                   /\ \A q \in d : q \in set_after[1].px /\ q \notin cleared_after[1].px
                   /\ \A q \in outside :
                         /\ q \in set_after[1].px <=> q \in set[1].px
                         /\ q \in cleared_after[1].px <=> q \in cleared[1].px]_vars

\* an Add stroke with the smallest brush has been painted next to an earlier
\* Erase stroke: both layers hold pixels, the removals only outside the disc
StrokePaintsDiscWitness ==
    /\ ev.op = "mouse" /\ ev.paint = "drawn"
    /\ mask_add_mode /\ brush_size = BrushMin
    /\ user_mask_additions # None /\ user_mask_removals # None
    /\ user_mask_additions[1].px # {}
    /\ user_mask_removals[1].px # {}

\* a layer as a render of a mask of the given shape treats it: absent when
\* its shape is another
LayerSeen(layer, size) ==
    IF layer # None /\ Shape(layer) # size THEN None ELSE layer

\* C21: when a user layer's dimensions differ from the base mask's, a render
\* treats the layer as absent: the combined mask is the one the base gives
\* without that layer, and the image is built without it; a render leaves the
\* contents and the dimensions of both layers as they are
MismatchedLayerAbsent ==
    [][ev'.seg = "ok"
       => LET size == processed_frame_size'[1]
              img == pixmap'[1].img
              bases == {[h |-> size.h, w |-> size.w, px |-> {}],
                        [h |-> size.h, w |-> size.w,
                         px |-> (0 .. size.w - 1) \X (0 .. size.h - 1)]}
          IN  /\ \A base \in bases :
                    Combine(base, user_mask_additions', user_mask_removals')
                      = Combine(base, LayerSeen(user_mask_additions', size),
                                LayerSeen(user_mask_removals', size))
              /\ LayerSeen(user_mask_additions', size) = None => ~img.add_used
              /\ LayerSeen(user_mask_removals', size) = None => ~img.rem_used
              /\ ev'.paint # "drawn" /\ frozen_locked'
                    => UNCHANGED <<user_mask_additions, user_mask_removals>>]_vars

\* the zoom has changed under painted layers: the sticker render has left a
\* processed frame of another shape than the layers, which still hold pixels
MismatchedLayerAbsentWitness ==
    /\ ev.seg = "ok" /\ frozen_locked
    /\ user_mask_additions # None /\ user_mask_removals # None
    /\ Shape(user_mask_additions) # processed_frame_size[1]
    /\ Shape(user_mask_removals) # processed_frame_size[1]
    /\ user_mask_additions[1].px # {} /\ user_mask_removals[1].px # {}

\* C22: for every pointer position inside the displayed pixmap the mapped
\* processing point lies in the processed frame, 0 <= fx <= procW - 1 and
\* 0 <= fy <= procH - 1; with a display crop (x1, y1, x2, y2) it lies inside
\* the crop, x1 <= fx < x2 and y1 <= fy < y2, and is the crop's origin plus
\* the normalized pixmap coordinate times the crop's size, truncated
PointerWithinFrameAndCrop ==
    /\ calc.fn \in {"map", "mapcrop"} =>
          /\ 0 <= calc.point.fx /\ calc.point.fx <= calc.point.proc_w - 1
          /\ 0 <= calc.point.fy /\ calc.point.fy <= calc.point.proc_h - 1
    /\ calc.fn = "mapcrop" =>
          LET c == calc.crop
              p == PixmapPoint(calc.pos, calc.pm)
          IN  /\ c.x1 <= calc.point.fx /\ calc.point.fx < c.x2
              /\ c.y1 <= calc.point.fy /\ calc.point.fy < c.y2
              /\ calc.point.fx = c.x1 + (p.x * (c.x2 - c.x1)) \div calc.pm.w
              /\ calc.point.fy = c.y1 + (p.y * (c.y2 - c.y1)) \div calc.pm.h

\* the pointer is on the last column of a pixmap that shows a crop lying
\* strictly inside the processed frame
PointerWithinFrameAndCropWitness ==
    /\ calc.fn = "mapcrop"
    /\ calc.crop.x1 > 0 /\ calc.crop.x2 < calc.point.proc_w
    /\ PixmapPoint(calc.pos, calc.pm).x = calc.pm.w - 1
    /\ calc.point.fx > calc.crop.x1

\* C23: for every detected face box (x, y, w, h) within the W x H frame the
\* display crop is the bounding box of the head ellipse with centre
\* (x + w div 2, y + floor(0.4 h)) and semi-axes (floor(0.75 w), floor(0.85 h)),
\* expanded by 20 pixels and clamped, so that 0 <= x1 < x2 <= W and
\* 0 <= y1 < y2 <= H; for the face (10, 10, 40, 40) the centre is (30, 26) and
\* the semi-axes are (30, 34)
FaceCropIsPaddedEllipseBox ==
    calc.fn = "mapcrop" =>
        LET o == calc.face
            c == calc.crop
            cx == o.x + o.w \div 2
            cy == o.y + (4 * o.h) \div 10
            ax == (75 * o.w) \div 100
            ay == (85 * o.h) \div 100
        IN  /\ calc.ellipse = [cx |-> cx, cy |-> cy, ax |-> ax, ay |-> ay]
            /\ c.x1 = Max(0, cx - ax - 20) /\ c.x2 = Min(FaceFrameW, cx + ax + 20)
            /\ c.y1 = Max(0, cy - ay - 20) /\ c.y2 = Min(FaceFrameH, cy + ay + 20)
            /\ 0 <= c.x1 /\ c.x1 < c.x2 /\ c.x2 <= FaceFrameW
            /\ 0 <= c.y1 /\ c.y1 < c.y2 /\ c.y2 <= FaceFrameH
            /\ o = Face(10, 10, 40, 40) =>
                  calc.ellipse = [cx |-> 30, cy |-> 26, ax |-> 30, ay |-> 34]

\* the crop for the face (10, 10, 40, 40): clamped at the left and upper
\* borders, 20 pixels beyond the ellipse at the right and below
FaceCropIsPaddedEllipseBoxWitness ==
    /\ calc.fn = "mapcrop"
    /\ calc.face = Face(10, 10, 40, 40)
    /\ calc.crop = [x1 |-> 0, y1 |-> 0, x2 |-> 80, y2 |-> 80]

\* C24: an export that reaches the encoder tries the qualities 90, 80, ..., 10
\* in that order, goes on only after a save that succeeded with a file over
\* the budget, stops at the first save that fails or whose file is within the
\* budget, and ends after at most 9 saves by reporting success (exactly when
\* the last save produced a file within the budget) or failure
ExportQualityLadder ==
    [][ev'.op = "export" /\ frozen_locked /\ bg_removal_enabled /\ pixmap # None
       => \A enc \in Encoders, partial \in BOOLEAN :
            export_sticker(TRUE, enc, partial)
              => LET t == ev'.qualities
                     n == Len(t)
                 IN  /\ 1 <= n /\ n <= 9 /\ ev'.saves = n
                     /\ \A i \in 1 .. n : t[i] = 90 - 10 * (i - 1)
                     /\ \A i \in 1 .. n - 1 :
                           enc[t[i]].ok /\ enc[t[i]].size > 500 * 1024
                     /\ ev'.export \in {"success", "failed"}
                     /\ ev'.export = "success"
                           <=> enc[t[n]].ok /\ enc[t[n]].size <= 500 * 1024
                     /\ n < 9 /\ ev'.export = "failed" => ~enc[t[n]].ok]_vars

\* the encoder produced files over the budget down to quality 50 and failed
\* at 40: six saves, and failure reported
ExportQualityLadderWitness ==
    /\ ev.op = "export" /\ ev.export = "failed"
    /\ ev.qualities = <<90, 80, 70, 60, 50, 40>>

\* C25: after the settings load and after every sticker mode toggle, sticker
\* mode is enabled only if a segmenter has been initialized; a failed
\* initialization leaves sticker mode disabled, and an initialization is
\* attempted only while no segmenter exists
StickerModeNeedsSegmenter ==
    /\ [](bg_removal_enabled => selfie_segmentation)
    /\ [][/\ ev'.init # "none" => ~selfie_segmentation
          /\ ev'.init = "failed" => ~bg_removal_enabled' /\ ~selfie_segmentation'
          /\ ev'.init = "ok" => bg_removal_enabled' /\ selfie_segmentation']_vars

\* the toggle's initialization has failed: sticker mode is off and there is
\* no segmenter
StickerModeNeedsSegmenterWitness ==
    /\ ev.init = "failed"
    /\ ~bg_removal_enabled /\ ~selfie_segmentation

\* C26: a double click while the frame is locked leaves the widget live
\* (neither locked nor frozen) with pan offset (0, 0), mask edit mode off, and
\* the display crop and the processed frame size absent
UnlockLeavesLive ==
    [][frozen_locked /\ ev'.op = "freeze"
       => /\ ~frozen_locked' /\ ~is_frozen'
          /\ pan_offset_x' = 0 /\ pan_offset_y' = 0
          /\ ~mask_edit_mode'
          /\ display_crop' = None /\ processed_frame_size' = None]_vars

\* C27: a render triggered by a live timer tick never runs the segmenter,
\* whether sticker mode is on or off, shows the frame cropped with the pan
\* offset (0, 0), leaves the pan offset (0, 0) and leaves the display crop and
\* the processed frame size absent; the segmenter runs only in renders of
\* handlers other than the tick that leave the frame frozen
LiveTickNeverSegments ==
    [][/\ \A f \in {1, 2} :
             ~is_frozen /\ ev'.op = "tick" /\ update_frame(TRUE, TRUE, f)
               => /\ ev'.seg = "none"
                  /\ pan_offset_x' = 0 /\ pan_offset_y' = 0
                  /\ display_crop' = None /\ processed_frame_size' = None
                  /\ pixmap'[1].img.kind = "plain"
                  /\ pixmap'[1].img.geom = GeometryTransform(f, zoom_level, 0, 0)
       /\ ev'.seg # "none" => ev'.op # "tick" /\ is_frozen']_vars

\* a live tick in sticker mode has replaced the frame and shown it plain
LiveTickNeverSegmentsWitness ==
    /\ ev.op = "tick" /\ ev.cam_read /\ ~is_frozen
    /\ bg_removal_enabled /\ selfie_segmentation
    /\ last_raw_frame = Some(2)
    /\ pixmap # None /\ pixmap[1].img.kind = "plain"
    /\ zoom_level > ZoomOne

\* C28: in every reachable state a locked frame is frozen and mask edit mode
\* is on only while the frame is locked; hence no step replaces the raw frame
\* while the frame is locked or being edited
LockedImpliesFrozen ==
    /\ [](frozen_locked => is_frozen)
    /\ [](mask_edit_mode => frozen_locked)
    /\ [][frozen_locked \/ mask_edit_mode
            => last_raw_frame' = last_raw_frame]_vars

\* a timer tick has fired while the frame was locked and being edited, and
\* has left the frame
LockedImpliesFrozenWitness ==
    /\ frozen_locked /\ is_frozen /\ mask_edit_mode
    /\ ev.op = "tick"
    /\ last_raw_frame # None

\* C29: whenever the image shown is the plain output of the most recent
\* render (sticker mode off, or the fallback after a segmentation error), the
\* stored display crop is absent
PlainRenderHasNoCrop ==
    pixmap # None /\ pixmap[1].img.kind = "plain" => display_crop = None

\* C30: whenever an export has passed its checks (frame locked, sticker mode
\* on) and has called the encoder, the image it exported, the one displayed,
\* was produced by a render with sticker mode applied
ExportEncodesSticker ==
    ev.op = "export" /\ ev.saves > 0
      => pixmap # None /\ pixmap[1].img.kind = "sticker"

\* C1: after any sequence of paint strokes no pixel is set in both the
\* additions layer and the removals layer
MutualExclusion ==
    user_mask_additions # None /\ user_mask_removals # None
        => user_mask_additions[1].px \cap user_mask_removals[1].px = {}

\* strokes in both modes, the last ones with a smaller brush, have left
\* pixels in both layers
MutualExclusionWitness ==
    /\ user_mask_additions # None /\ user_mask_removals # None
    /\ user_mask_additions[1].px # {}
    /\ user_mask_removals[1].px # {}
    /\ brush_size < BrushInit
    /\ ev.paint = "drawn"

\* C2: after any pan adjustment (arrow key, scroll wheel or mouse drag while
\* frozen) both pan offsets are within max(0, 1 - 1/z) of zero, z the
\* current zoom level; at zoom 1.0 they are (0, 0), also before any frame
\* has been rendered
PanClampedAfterAdjustment == [][ev'.pan => PanWithin(zoom_level)']_vars

\* C3: whenever the zoom level changes (zoom slider or pinch gesture) the pan
\* offsets are within max(0, 1 - 1/zoom) of zero for the new zoom right
\* after the change
PanClampedAfterZoom == [][zoom_level' # zoom_level => PanWithin(zoom_level)']_vars

\* C4: in Live and HeldFrozen a mouse press or move never modifies the user
\* mask layers, the mask edit button leaves edit mode off, and an export
\* request returns without a save and without writing a file
OnlyLockedEdits ==
    [][~frozen_locked =>
          /\ (ev'.op = "mouse" => UNCHANGED Layers)
          /\ (ev'.op = "edit" => ~mask_edit_mode')
          /\ (ev'.op = "export" => file' = file /\ ev'.saves = 0
                                     /\ ev'.export = "not_locked")]_vars

\* an export was asked for in HeldFrozen, in sticker mode with an image
\* displayed and after an earlier export had written the file
OnlyLockedEditsWitness ==
    /\ is_frozen /\ ~frozen_locked
    /\ ev.op = "export" /\ ev.export = "not_locked"
    /\ bg_removal_enabled /\ pixmap # None
    /\ file # None

\* C5: a timer tick that fires while the frame is frozen (held or locked)
\* reads no camera frame and leaves the raw frame, the pan offsets, the user
\* mask layers, the display crop and the displayed image unchanged
FrozenTickSkipped ==
    [][is_frozen /\ ev'.op = "tick" =>
          /\ ~ev'.cam_read
          /\ UNCHANGED <<last_raw_frame, pan_offset_x, pan_offset_y, Layers,
                         display_crop, pixmap>>]_vars

\* a tick has fired on a locked frame with a painted layer
FrozenTickSkippedWitness ==
    /\ ev.op = "tick" /\ ~ev.cam_read
    /\ is_frozen /\ frozen_locked
    /\ last_raw_frame # None
    /\ user_mask_additions # None

\* C6: the additions and removals layers are both absent unless the freeze
\* state is LockedFrozen
LayersOnlyWhenLocked ==
    ~frozen_locked => user_mask_additions = None /\ user_mask_removals = None

\* the frame was unlocked after a stroke inside the picture: the stroke's
\* position is still held, the layers are gone
LayersOnlyWhenLockedWitness ==
    /\ ~frozen_locked /\ ~bg_removal_enabled
    /\ last_paint_pos # None /\ pixmap # None
    /\ ~OutsidePixmap(last_paint_pos[1], pixmap[1])
    /\ user_mask_additions = None /\ user_mask_removals = None

\* C7: an export that reports success has left a file of at most 500 * 1024
\* bytes
ExportSuccessWithinLimit ==
    ev.export = "success" => file # None /\ file[1] <= ExportLimit

\* an export succeeded at the last quality step, with a file exactly at the
\* limit
ExportSuccessWithinLimitWitness ==
    /\ ev.export = "success"
    /\ ev.saves = Cardinality(Qualities)
    /\ file = Some(ExportLimit)

\* C8: when no quality step produces an encoding within the budget, the
\* export fails and leaves no file it wrote at the chosen path, where there
\* was none before
NoFileLeftOverBudget ==
    [][/\ ev'.op = "export" /\ ev'.export = "failed"
       /\ ev'.saves = Cardinality(Qualities)
       /\ file = None
       => file' = None]_vars

\* C9: when the segmenter or the face detector raises during a sticker mode
\* render, the handler still displays the plain geometric-transform output
\* of the raw frame, the raw frame is unchanged and the frame stays frozen;
\* the freeze state and the layers are as the handler set them before the
\* render: untouched by a key, wheel or zoom handler, the lock untouched and
\* the layers changed by a drawn stroke only in a mouse handler, the lock
\* toggled and the layers untouched or reset in a double click
SegmentationFailureFallsBack ==
    [][ev'.seg = "error" =>
          /\ pixmap' # None
          /\ pixmap'[1].img.kind = "plain"
          /\ pixmap'[1].img.geom =
                GeometryTransform(last_raw_frame[1], zoom_level', pan_offset_x',
                                  pan_offset_y')
          /\ last_raw_frame' = last_raw_frame
          /\ is_frozen'
          /\ (ev'.op = "other" => UNCHANGED <<is_frozen, frozen_locked, Layers>>)
          /\ (ev'.op = "mouse" =>
                /\ frozen_locked' = frozen_locked
                /\ (ev'.paint # "drawn" => UNCHANGED Layers))
          /\ (ev'.op = "freeze" =>
                /\ frozen_locked' = ~frozen_locked
                /\ IF frozen_locked' THEN UNCHANGED Layers
                   ELSE user_mask_additions' = None /\ user_mask_removals' = None)
          /\ ev'.op \in {"other", "mouse", "freeze"}]_vars

\* a stroke was drawn on a locked frame and its re-render failed: the
\* plain output is shown and the layers are there
SegmentationFailureFallsBackWitness ==
    /\ ev.seg = "error" /\ ev.paint = "drawn"
    /\ frozen_locked /\ mask_edit_mode
    /\ pixmap # None /\ pixmap[1].img.kind = "plain"
    /\ user_mask_additions # None /\ user_mask_additions[1].px # {}

\* C10: a paint request at a position outside the displayed pixmap returns
\* early: the two layers, absent or not, are unchanged and no re-render is
\* requested
PaintOutsideIsNoOp ==
    [][/\ ev'.op = "mouse" /\ ev'.paint # "none"
       /\ pixmap # None
       /\ OutsidePixmap(last_paint_pos'[1], pixmap[1])
       => /\ UNCHANGED Layers
          /\ ev'.paint = "returned"
          /\ ~ev'.rerender
          /\ pixmap' = pixmap]_vars

\* a stroke outside the picture was asked for with a painted layer present
PaintOutsideIsNoOpWitness ==
    /\ ev.op = "mouse" /\ ev.paint = "returned"
    /\ pixmap # None /\ last_paint_pos # None
    /\ OutsidePixmap(last_paint_pos[1], pixmap[1])
    /\ user_mask_additions # None /\ user_mask_additions[1].px # {}

====
